---- MODULE Spec2Model ----
(***************************************************************************)
(* A model of the TimedSet of src/src/lib.rs: a map from elements to the   *)
(* absolute instant at which they expire, with lazy expiration on lookup,  *)
(* and the iterator Iter that TimedSet::iter builds over a map of          *)
(* references collected from the set.                                      *)
(***************************************************************************)
EXTENDS Integers, Sequences, FiniteSets, Bags

(* ----------------------------- bounds --------------------------------- *)
NumValues == 2
MaxTime == 1
MaxTtl == 2

Values == 1..NumValues
Ttls == 0..MaxTtl

(* ----------------------- SystemTime and Duration ---------------------- *)
\* The largest SystemTime: every instant the clock shows plus every ordinary
\* TTL fits below it.
MaxInstant == MaxTime + MaxTtl
\* Duration::MAX: longer than the whole range of SystemTime.
DurationMax == MaxInstant + 1
Durations == Ttls \cup {DurationMax}

(* --------------------------- Option<T> -------------------------------- *)
None == <<>>
Some(x) == <<x>>

\* The value of a call that has not returned yet.
Pending == <<0, 0>>

\* `SystemTime + Duration` is checked_add(..).expect(..): None makes it panic
\* with "overflow when adding duration to instant".
CheckedAdd(t, d) == IF t + d <= MaxInstant THEN Some(t + d) ELSE None

(* ---------------------- std::collections::HashMap --------------------- *)
EmptyMap == [x \in {} |-> 0]
Insert(m, k, v) == [x \in (DOMAIN m) \cup {k} |-> IF x = k THEN v ELSE m[x]]
Get(m, k) == IF k \in DOMAIN m THEN Some(m[k]) ELSE None
Keys(m) == DOMAIN m
\* A remove_entry that hands the entry back and leaves it in the map.
RemoveEntry_Keep(m, k) == m
RemoveEntry(m, k) == [x \in (DOMAIN m) \ {k} |-> m[x]]

VARIABLES
    now,        \* the reading of SystemTime::now()
    ttl,        \* TimedSet.ttl
    set,        \* TimedSet.set : HashMap<T, SystemTime>
    hist,       \* history: per inserted value, its most recent insertion
    passed,     \* history: the values ever passed to add or add_with_ttl
    iterActive, \* an Iter built by iter() is alive (it borrows the set)
    iterSet,    \* Iter.set : HashMap<&T, &SystemTime>
    iterKeys,   \* history: the keys stored when iter() was called
    yielded,    \* history: the bag of the values this Iter has returned
    calls,      \* history: the number of completed calls to next on this Iter
    sawNone,    \* history: some completed call to next returned None
    pc,         \* "idle", "next" inside Iter::next, "panicked" once a call panicked
    keys,       \* the local `keys` of Iter::next: the keys still to visit
    atCall,     \* history: size of Iter.set when the running next was called, else 0
    ret         \* the last operation called, and what it returned

vars == <<now, ttl, set, hist, passed, iterActive, iterSet, iterKeys, yielded, calls,
          sawNone, pc, keys, atCall, ret>>

setVars == <<ttl, set, hist, passed>>
iterVars == <<iterActive, iterSet, iterKeys, yielded, calls, sawNone, keys, atCall>>

(* ------------------------------ TimedSet ------------------------------ *)
\* TimedSet::new(ttl): the set is empty and keeps the default TTL.
Init ==
    /\ now = 0
    /\ ttl \in Durations
    /\ set = EmptyMap
    /\ hist = EmptyMap
    /\ passed = {}
    /\ iterActive = FALSE
    /\ iterSet = EmptyMap
    /\ iterKeys = {}
    /\ yielded = EmptyBag
    /\ calls = 0
    /\ sawNone = FALSE
    /\ pc = "idle"
    /\ keys = {}
    /\ atCall = 0
    /\ ret = [op |-> "new"]

\* An add that stores the insertion instant and forgets the TTL.
add_NoTtl(val) == Insert(set, val, now)
\* self.set.insert(val, SystemTime::now() + self.ttl)
add(val) == Insert(set, val, now + ttl)

\* An add_with_ttl that uses the set's default TTL instead of its argument.
add_with_ttl_Default(val, t) == Insert(set, val, now + ttl)
\* An add_with_ttl that only ever extends a stored deadline.
add_with_ttl_Max(val, t) ==
    Insert(set, val, IF val \in DOMAIN set /\ set[val] > now + t THEN set[val] ELSE now + t)
\* An insertion that rewrites the deadline of every stored key.
add_with_ttl_All(val, t) == [k \in Keys(set) \cup {val} |-> now + t]
\* self.set.insert(val, SystemTime::now() + ttl)
add_with_ttl(val, t) == Insert(set, val, now + t)

\* A contains that looks the key up and never reads the clock.
contains_KeyOnly(val) == Get(set, val) # None
\* A contains whose comparison is `<=`: alive at the deadline itself.
contains_Le(val) ==
    LET s == Get(set, val)
    IN  IF s # None
        THEN IF now <= s[1] THEN TRUE ELSE FALSE
        ELSE FALSE
\* if let Some(s) = self.set.get(val) { if SystemTime::now() < *s { return true; } } false
contains(val) ==
    LET s == Get(set, val)
    IN  IF s # None
        THEN IF now < s[1] THEN TRUE ELSE FALSE
        ELSE FALSE

\* Iter { set: self.set.iter().map(|(k, v)| (k, v)).collect() }
iter == [k \in Keys(set) |-> set[k]]

\* The same test with `<=`.
NextAlive_Le(t) == now <= t
\* The test turned round: the expired entries pass, the alive ones do not.
NextAlive_Inverted(t) == now > t
\* `SystemTime::now() < *t` in Iter::next
NextAlive(t) == now < t

\* add takes &mut self, and an Iter<'_, T> holds a shared borrow of the set for
\* as long as it lives: the compiler admits add only while no Iter is alive.
\* `old` keeps what HashMap::insert returns and add discards.
\* The sum is evaluated before insert is called: when it overflows the call
\* panics, nothing is stored and the thread unwinds.
Add(val) ==
    /\ pc = "idle"
    /\ ~iterActive
    /\ passed' = passed \cup {val}
    /\ IF CheckedAdd(now, ttl) = None
       THEN /\ pc' = "panicked"
            /\ ret' = [op |-> "panic", in |-> "add", arg |-> val]
            /\ UNCHANGED <<set, hist>>
       ELSE /\ set' = add(val)
            /\ hist' = Insert(hist, val, [at |-> now, ttl |-> ttl])
            /\ ret' = [op |-> "add", arg |-> val, old |-> Get(set, val)]
            /\ UNCHANGED pc
    /\ UNCHANGED <<now, ttl>>
    /\ UNCHANGED iterVars

\* An insertion with an explicit TTL that also makes it the default.
AddWithTtl_SetsDefault(val, t) ==
    /\ pc = "idle"
    /\ ~iterActive
    /\ passed' = passed \cup {val}
    /\ IF CheckedAdd(now, t) = None
       THEN /\ pc' = "panicked"
            /\ ret' = [op |-> "panic", in |-> "add_with_ttl", arg |-> val]
            /\ UNCHANGED <<set, hist>>
       ELSE /\ set' = add_with_ttl(val, t)
            /\ hist' = Insert(hist, val, [at |-> now, ttl |-> t])
            /\ ret' = [op |-> "add_with_ttl", arg |-> val, old |-> Get(set, val)]
            /\ UNCHANGED pc
    /\ ttl' = t
    /\ UNCHANGED now
    /\ UNCHANGED iterVars
\* add_with_ttl takes &mut self as add does; self.ttl is not read.
AddWithTtl(val, t) ==
    /\ pc = "idle"
    /\ ~iterActive
    /\ passed' = passed \cup {val}
    /\ IF CheckedAdd(now, t) = None
       THEN /\ pc' = "panicked"
            /\ ret' = [op |-> "panic", in |-> "add_with_ttl", arg |-> val]
            /\ UNCHANGED <<set, hist>>
       ELSE /\ set' = add_with_ttl(val, t)
            /\ hist' = Insert(hist, val, [at |-> now, ttl |-> t])
            /\ ret' = [op |-> "add_with_ttl", arg |-> val, old |-> Get(set, val)]
            /\ UNCHANGED pc
    /\ UNCHANGED <<now, ttl>>
    /\ UNCHANGED iterVars

\* A contains that evicts the entry it finds expired.
Contains_Evict(val) ==
    /\ pc = "idle"
    /\ ret' = [op |-> "contains", arg |-> val, val |-> contains(val)]
    /\ set' = IF val \in DOMAIN set /\ set[val] <= now
              THEN [x \in (DOMAIN set) \ {val} |-> set[x]]
              ELSE set
    /\ UNCHANGED <<now, pc, ttl, hist, passed>>
    /\ UNCHANGED iterVars
\* A contains that renews the entry it looks up.
Contains_Refresh(val) ==
    /\ pc = "idle"
    /\ ret' = [op |-> "contains", arg |-> val, val |-> contains(val)]
    /\ set' = IF val \in DOMAIN set THEN Insert(set, val, now + 1) ELSE set
    /\ UNCHANGED <<now, pc, ttl, hist, passed>>
    /\ UNCHANGED iterVars
\* contains takes &self and only reads.
Contains(val) ==
    /\ pc = "idle"
    /\ ret' = [op |-> "contains", arg |-> val, val |-> contains(val)]
    /\ UNCHANGED <<now, pc>>
    /\ UNCHANGED setVars
    /\ UNCHANGED iterVars

\* iter takes &self and collects references to every entry into a new map.
\* One Iter is followed at a time; a new one starts once it is dropped.
IterCall ==
    /\ pc = "idle"
    /\ ~iterActive
    /\ iterActive' = TRUE
    /\ iterSet' = iter
    /\ iterKeys' = Keys(set)
    /\ yielded' = EmptyBag
    /\ calls' = 0
    /\ sawNone' = FALSE
    /\ ret' = [op |-> "iter"]
    /\ UNCHANGED <<now, pc, keys, atCall>>
    /\ UNCHANGED setVars

(* ------------------------------ Iter::next ---------------------------- *)
\* let keys: Vec<&T> = self.set.keys().cloned().collect();
NextCall ==
    /\ pc = "idle"
    /\ iterActive
    /\ calls - BagCardinality(yielded) < 2
    /\ pc' = "next"
    /\ keys' = Keys(iterSet)
    /\ atCall' = Cardinality(Keys(iterSet))
    /\ ret' = [op |-> "next", val |-> Pending]
    /\ UNCHANGED <<now, iterActive, iterSet, iterKeys, yielded, calls, sawNone>>
    /\ UNCHANGED setVars

\* One turn of `for k in keys`: the Vec's order is the HashMap's, arbitrary.
NextVisit ==
    /\ pc = "next"
    /\ \E k \in keys :
        LET e == Get(iterSet, k)
        IN  /\ iterSet' = IF e # None THEN RemoveEntry(iterSet, k) ELSE iterSet
            /\ IF e # None /\ NextAlive(e[1])
               THEN /\ pc' = "idle"
                    /\ keys' = {}
                    /\ ret' = [op |-> "next", val |-> Some(k)]
                    /\ yielded' = yielded (+) SetToBag({k})
                    /\ calls' = calls + 1
                    /\ atCall' = 0
               ELSE /\ keys' = keys \ {k}
                    /\ UNCHANGED <<pc, ret, yielded, calls, atCall>>
    /\ UNCHANGED <<now, iterActive, iterKeys, sawNone>>
    /\ UNCHANGED setVars

\* The loop ran out of keys: None.
NextNone ==
    /\ pc = "next"
    /\ keys = {}
    /\ pc' = "idle"
    /\ ret' = [op |-> "next", val |-> None]
    /\ calls' = calls + 1
    /\ sawNone' = TRUE
    /\ atCall' = 0
    /\ UNCHANGED <<now, iterActive, iterSet, iterKeys, yielded, keys>>
    /\ UNCHANGED setVars

\* The Iter goes out of scope and its borrow of the set ends.
DropIter ==
    /\ pc = "idle"
    /\ iterActive
    /\ iterActive' = FALSE
    /\ iterSet' = EmptyMap
    /\ iterKeys' = {}
    /\ yielded' = EmptyBag
    /\ calls' = 0
    /\ sawNone' = FALSE
    /\ atCall' = 0
    /\ ret' = [op |-> "drop"]
    /\ UNCHANGED <<now, pc, keys>>
    /\ UNCHANGED setVars

\* The system clock advances, also between two reads inside one call; it is
\* followed for as long as the thread runs.
Tick ==
    /\ pc # "panicked"
    /\ now < MaxTime
    /\ now' = now + 1
    /\ UNCHANGED <<pc, ret>>
    /\ UNCHANGED setVars
    /\ UNCHANGED iterVars

Next ==
    \/ \E v \in Values : Add(v)
    \/ \E v \in Values : \E t \in Durations : AddWithTtl(v, t)
    \/ \E v \in Values : Contains(v)
    \/ IterCall
    \/ NextCall
    \/ NextVisit
    \/ NextNone
    \/ DropIter
    \/ Tick

Spec == Init /\ [][Next]_vars

(* ------------------------------ claims -------------------------------- *)
Adds == {"add", "add_with_ttl"}
NextReturns == pc = "next" /\ pc' = "idle"

\* C1. Insert-then-check: right after add(v) on a set whose default TTL is
\* positive, or after add_with_ttl(v, d) with d > 0, and before the clock
\* advances, contains(v) is true, whatever came before the insertion.
C1_InsertThenCheck ==
    \A v \in DOMAIN hist :
        (hist[v].at = now /\ hist[v].ttl > 0) => contains(v)

\* v was stored and already expired, and add has just stored it again.
C1_Witness ==
    /\ ret.op = "add"
    /\ ret.old # None
    /\ ret.old[1] < now
    /\ hist[ret.arg].at = now
    /\ hist[ret.arg].ttl > 0
    /\ contains(ret.arg)

\* C2. Expiry: a value inserted at t0 with TTL d and not inserted again is
\* not contained at any clock time t >= t0 + d, with no removal call made.
C2_Expiry ==
    \A v \in DOMAIN hist :
        now >= hist[v].at + hist[v].ttl => ~contains(v)

\* contains has just answered false for a value that was inserted with a
\* positive TTL and is still in storage.
C2_Witness ==
    /\ ret.op = "contains"
    /\ ret.val = FALSE
    /\ ret.arg \in DOMAIN hist
    /\ hist[ret.arg].ttl > 0
    /\ now >= hist[ret.arg].at + hist[ret.arg].ttl
    /\ ret.arg \in Keys(set)

\* C3. contains(v) is true iff v is a key of the storage and the clock is
\* strictly less than v's stored deadline; it is false when the clock equals
\* the deadline and when v was never inserted.
C3_ContainsIff ==
    \A v \in Values :
        /\ contains(v) <=> (v \in Keys(set) /\ now < set[v])
        /\ (v \in Keys(set) /\ now = set[v]) => ~contains(v)
        /\ v \notin DOMAIN hist => ~contains(v)

\* contains has just answered false at the very deadline of its argument,
\* while another value was never inserted.
C3_Witness ==
    /\ ret.op = "contains"
    /\ ret.arg \in Keys(set)
    /\ set[ret.arg] = now
    /\ hist[ret.arg].ttl > 0
    /\ ret.val = FALSE
    /\ \E w \in Values : w \notin DOMAIN hist

\* C4. Per-element deadlines are independent: v1 and v2 inserted at the same
\* clock time with TTLs d1 < d2 are both contained while the elapsed time t
\* is below d1, only v2 is while d1 <= t < d2, and neither is from d2 on.
C4_IndependentDeadlines ==
    \A v1 \in DOMAIN hist : \A v2 \in DOMAIN hist :
        (hist[v1].at = hist[v2].at /\ hist[v1].ttl < hist[v2].ttl) =>
            LET t == now - hist[v1].at
                d1 == hist[v1].ttl
                d2 == hist[v2].ttl
            IN  /\ t < d1 => (contains(v1) /\ contains(v2))
                /\ (d1 <= t /\ t < d2) => (~contains(v1) /\ contains(v2))
                /\ t >= d2 => (~contains(v1) /\ ~contains(v2))

\* v1 went in by add with a positive default TTL, v2 by add_with_ttl with a
\* longer one at the same instant, and the clock now stands between the two.
C4_Witness ==
    \E v1 \in DOMAIN hist : \E v2 \in DOMAIN hist :
        /\ hist[v1].at = hist[v2].at
        /\ hist[v1].ttl = ttl
        /\ 0 < hist[v1].ttl
        /\ hist[v1].ttl < hist[v2].ttl
        /\ hist[v1].at + hist[v1].ttl <= now
        /\ now < hist[v2].at + hist[v2].ttl
        /\ ~contains(v1)
        /\ contains(v2)

\* C5. Overwrite resets lifetime: when a stored value v is inserted again at
\* t1 with TTL d2, its deadline becomes exactly t1 + d2 and the earlier
\* deadline has no further effect: contains(v) is true on [t1, t1 + d2) and
\* false from t1 + d2 on, also when the earlier deadline was later.
C5_OverwriteResets ==
    (ret.op \in Adds /\ ret.old # None) =>
        LET v == ret.arg
            t1 == hist[v].at
            d2 == hist[v].ttl
        IN  /\ set[v] = t1 + d2
            /\ (t1 <= now /\ now < t1 + d2) => contains(v)
            /\ now >= t1 + d2 => ~contains(v)

\* The re-insertion shortened the lifetime, and the clock stands between the
\* new deadline and the earlier one: v is not contained.
C5_Witness ==
    /\ ret.op \in Adds
    /\ ret.old # None
    /\ set[ret.arg] < ret.old[1]
    /\ hist[ret.arg].ttl > 0
    /\ set[ret.arg] <= now
    /\ now < ret.old[1]
    /\ ~contains(ret.arg)

\* The re-insertion extended the lifetime, and the clock is past the earlier
\* deadline and before the new one: v is contained.
C5_Extended ==
    /\ ret.op \in Adds
    /\ ret.old # None
    /\ ret.old[1] <= now
    /\ now < set[ret.arg]
    /\ contains(ret.arg)

\* C6. Drain empties the set: once an iterator obtained from iter() has been
\* consumed until next returns None, the set's storage is empty, so
\* contains(v) is false for every value, also those not yet expired.
C6_DrainEmptiesSet ==
    (iterActive /\ sawNone /\ pc = "idle") =>
        /\ Keys(set) = {}
        /\ \A v \in Values : ~contains(v)

\* C7. Over the life of one iterator, whatever the contents and the clock
\* advances between calls: no value is yielded twice, every yielded value was
\* a stored key when iter() was called, and every yielded value has a
\* deadline strictly greater than the clock at the moment it is yielded.
C7_YieldOnceAlive ==
    /\ [](iterActive =>
            /\ \A v \in BagToSet(yielded) : CopiesIn(v, yielded) = 1
            /\ BagToSet(yielded) \subseteq iterKeys)
    /\ [][\A k \in Values :
            (NextReturns /\ ret' = [op |-> "next", val |-> Some(k)]) =>
                (k \in Keys(set) /\ now < set[k])]_vars

\* The iterator is drained: it yielded one value, after the clock had
\* advanced, and passed over another that had expired.
C7_Witness ==
    /\ iterActive
    /\ sawNone
    /\ now > 0
    /\ \E k \in iterKeys : \E x \in iterKeys :
        /\ BagToSet(yielded) = {k}
        /\ hist[k].at < now
        /\ x # k
        /\ set[x] <= now

\* C8. contains is a pure lookup: a call of contains(v) leaves the default
\* TTL, the stored keys and every stored deadline unchanged, also when v is
\* stored and expired (the stale entry stays in storage).
C8_ContainsPure ==
    [][\A v \in Values :
        (ret'.op = "contains" /\ Contains(v)) => (ttl' = ttl /\ set' = set)]_vars

\* contains has just found its argument expired, and the entry is still stored.
C8_Witness ==
    /\ ret.op = "contains"
    /\ ret.val = FALSE
    /\ ret.arg \in Keys(set)
    /\ set[ret.arg] < now

\* C9. Iteration terminates: over n stored keys, each call to next on
\* non-empty iterator storage removes at least one key from it, at most n
\* calls return an element, some call among the first n + 1 returns None, and
\* every call after the first None returns None.
C9_IterationTerminates ==
    /\ [](iterActive =>
            /\ BagCardinality(yielded) <= Cardinality(iterKeys)
            /\ calls >= Cardinality(iterKeys) + 1 => sawNone)
    /\ [][NextReturns =>
            /\ atCall > 0 => Cardinality(Keys(iterSet')) < atCall
            /\ sawNone => ret'.val = None]_vars

\* Every stored key was yielded, then next returned None twice.
C9_Witness ==
    /\ iterActive
    /\ Cardinality(iterKeys) = NumValues
    /\ BagCardinality(yielded) = Cardinality(iterKeys)
    /\ calls = Cardinality(iterKeys) + 2
    /\ sawNone
    /\ ret = [op |-> "next", val |-> None]

\* C10. An element inserted with a TTL of zero is expired at once, and the
\* insertion raises no error: contains(v) is false from the insertion instant
\* until v is inserted again with a positive TTL, no iterator yields v, and a
\* value that was stored and alive is absent after the zero-TTL insertion.
C10_ZeroTtl ==
    \A v \in DOMAIN hist :
        hist[v].ttl = 0 =>
            /\ ~contains(v)
            /\ v \in Keys(set)
            /\ iterActive => ~BagIn(v, yielded)

\* add on a set whose default TTL is 0 has just replaced an alive entry.
C10_Witness ==
    /\ ret.op = "add"
    /\ ttl = 0
    /\ ret.old # None
    /\ now < ret.old[1]
    /\ hist[ret.arg].at = now
    /\ hist[ret.arg].ttl = 0
    /\ ~contains(ret.arg)

\* C11. Insertion always succeeds: for every value and every TTL that is a
\* Duration, the largest one included, add and add_with_ttl complete without
\* failing or aborting; no reachable state makes an insertion fail.
C11_InsertionAlwaysSucceeds ==
    /\ pc # "panicked"
    /\ ret.op # "panic"

\* C12. The iterator consumes the set's own storage: every key visited by a
\* call to next, yielded or discarded, is removed from the TimedSet's storage
\* at that step, so after a partial drain that yielded v the set no longer
\* stores v and contains(v) is false, while the keys not yet visited are
\* still stored.
C12_IterConsumesStorage ==
    iterActive =>
        \A v \in iterKeys :
            /\ v \in Keys(set) <=> v \in Keys(iterSet)
            /\ BagIn(v, yielded) => ~contains(v)

\* C13. The iterator loses no alive element: next returns None only after
\* every key left in the iterator's storage was visited and removed, every
\* key it passes over was expired when visited, and so every element stored
\* at iter() whose deadline is still ahead when next has returned None was
\* yielded exactly once.
C13_NoAliveLost ==
    /\ [](iterActive /\ sawNone =>
            /\ Keys(iterSet) = {}
            /\ \A k \in iterKeys : now < set[k] => CopiesIn(k, yielded) = 1)
    /\ [][(pc = "next" /\ pc' = "next") =>
            \A k \in Keys(iterSet) \ Keys(iterSet') : set[k] <= now]_vars
    /\ [][(NextReturns /\ ret'.val = None) =>
            (keys = {} /\ Keys(iterSet') = {})]_vars

\* next has returned None after passing over an expired key and yielding a
\* key that is alive even now.
C13_Witness ==
    /\ iterActive
    /\ ret = [op |-> "next", val |-> None]
    /\ calls = 2
    /\ \E k \in iterKeys : \E x \in iterKeys :
        /\ now < set[k]
        /\ CopiesIn(k, yielded) = 1
        /\ set[x] <= now
        /\ hist[x].ttl > 0
        /\ ~BagIn(x, yielded)

\* A step that completes add(v) or add_with_ttl(v, t).
InsertionOf(v) ==
    /\ ret'.op \in Adds
    /\ ret'.arg = v
    /\ \/ Add(v)
       \/ \E t \in Durations : AddWithTtl(v, t)

\* C14. Deadline invariant: in every reachable state every key k of the set's
\* storage has the deadline (clock read at the most recent insertion of k) +
\* (TTL of that insertion), the TTL being the default fixed at construction
\* for add and the argument for add_with_ttl; and a step changes the deadline
\* of k, or makes k a key, only when it is an insertion of k.
C14_DeadlineInvariant ==
    /\ [](/\ Keys(set) = DOMAIN hist
          /\ \A k \in Keys(set) : set[k] = hist[k].at + hist[k].ttl)
    /\ [][\A k \in Keys(set') :
            (k \notin Keys(set) \/ set'[k] # set[k]) =>
                /\ InsertionOf(k)
                /\ hist'[k].at = now
                /\ ret'.op = "add" => hist'[k].ttl = ttl]_vars

\* A key inserted at an earlier clock time with a TTL other than the default
\* still has that insertion's deadline after the clock moved and next ran.
C14_Witness ==
    /\ ret.op = "next"
    /\ ret.val # Pending
    /\ \E k \in Keys(set) :
        /\ hist[k].at < now
        /\ hist[k].ttl # ttl
        /\ hist[k].ttl > 0
        /\ set[k] = hist[k].at + hist[k].ttl

\* C15. Insertion touches one entry only: a step of add(v) or
\* add_with_ttl(v, ttl) leaves every key w other than v as it was, stored or
\* not and with the same deadline, so contains(w) answers after the insertion
\* what it answered before it, at this and at every later clock time.
C15_InsertTouchesOne ==
    [][(ret'.op \in Adds /\ InsertionOf(ret'.arg)) =>
        \A w \in Values \ {ret'.arg} :
            /\ w \in Keys(set') <=> w \in Keys(set)
            /\ w \in Keys(set) => set'[w] = set[w]
            /\ contains(w)' = contains(w)]_vars

\* v was just inserted while another value, stored earlier with another
\* deadline, is still contained.
C15_Witness ==
    /\ ret.op \in Adds
    /\ hist[ret.arg].at = now
    /\ \E w \in Keys(set) \ {ret.arg} :
        /\ hist[w].at < now
        /\ set[w] # set[ret.arg]
        /\ contains(w)

\* C16. The default TTL is fixed at construction: no step changes it; a step
\* of add(w) at clock time t stores t + the default for w, whatever TTLs
\* add_with_ttl was given before, and a step of add_with_ttl(v, d) stores
\* t + d for v, whatever the default is.
C16_DefaultTtlFixed ==
    [][/\ ttl' = ttl
       /\ (ret'.op = "add" /\ Add(ret'.arg)) =>
            set'[ret'.arg] = now + ttl
       /\ ret'.op = "add_with_ttl" =>
            \A d \in Durations :
                AddWithTtl(ret'.arg, d) => set'[ret'.arg] = now + d]_vars

\* add has just stored the default for one value after add_with_ttl stored
\* another TTL for another value, at a clock time past the construction.
C16_Witness ==
    /\ ret.op = "add"
    /\ now > 0
    /\ hist[ret.arg].at = now
    /\ set[ret.arg] = now + ttl
    /\ \E v \in Keys(set) \ {ret.arg} :
        /\ hist[v].ttl # ttl
        /\ set[v] = hist[v].at + hist[v].ttl

\* C17. Membership is regained only by insertion: a step after which
\* contains(v) is true and before which it was false is a step of add(v) or
\* add_with_ttl(v, ttl) with ttl > 0; no step of contains, iter, next or of
\* the clock makes it true, so once false it stays false until such a call.
C17_RegainedOnlyByInsertion ==
    [][\A v \in Values :
        (~contains(v) /\ contains(v)') =>
            /\ InsertionOf(v)
            /\ hist'[v].ttl > 0]_vars

\* v had expired, contains(v) answered false, and a later insertion of v made
\* it contained again.
C17_Witness ==
    /\ ret.op \in Adds
    /\ ret.old # None
    /\ ret.old[1] <= hist[ret.arg].at
    /\ hist[ret.arg].at = now
    /\ hist[ret.arg].ttl > 0
    /\ now > 0
    /\ contains(ret.arg)
    /\ \E w \in Keys(set) \ {ret.arg} : ~contains(w)

\* C18. The keys of the TimedSet's own map are the distinct values ever
\* passed to add or add_with_ttl since construction (the map is a function,
\* so a value inserted twice is one key), and no step removes a key.
C18_KeysArePassed ==
    Keys(set) = passed

\* The half of C18 about removal: every step keeps every key of the map.
KeysNeverRemoved ==
    [][Keys(set) \subseteq Keys(set')]_vars

====
